---- MODULE Spec2Model ----
(***************************************************************************)
(* A model of the verse extractor: detect_verse_format, group_verse_lines  *)
(* and find_text_section of src/src/utils.py, driven either directly or    *)
(* through VerseExtractor.extract_verses of src/src/main.py.               *)
(*                                                                         *)
(* A string is a sequence of one-character strings, so that strip(), the   *)
(* regular expression of config.VERSE_PATTERN, "\n".join and split('\n')   *)
(* are computed character by character.  Positions in lists are 0-based as *)
(* in the Python source; lines[k] of the source is lines[k + 1] here.      *)
(***************************************************************************)
EXTENDS Integers, Sequences, FiniteSets, TLC

\* ------------------------------------------------------------------ bounds

\* The longest document (number of lines) the model explores.
MaxLines == 4

\* ------------------------------------------------------- strings, by character

\* What str.strip() removes and the pattern's \s matches.
WS == {" ", "\t"}

\* What the pattern's \d matches.
Digits == {"0", "1", "2", "3", "4", "5", "6", "7", "8", "9"}

NL == <<"\n">>

MinOf(S) == CHOOSE x \in S : \A y \in S : x <= y

MaxOf(S) == CHOOSE x \in S : \A y \in S : x >= y

\* str.strip(): leading and trailing whitespace removed.
Strip(s) ==
    LET keep == {k \in 1..Len(s) : s[k] \notin WS}
    IN  IF keep = {} THEN <<>> ELSE SubSeq(s, MinOf(keep), MaxOf(keep))

\* The first position >= k of t that holds no member of S (Len(t) + 1 if none):
\* where a greedy run S* starting at k ends.
RunEnd(t, k, S) ==
    MinOf({j \in k..(Len(t) + 1) : j = Len(t) + 1 \/ t[j] \notin S})

\* sub in s
Contains(s, sub) ==
    \E k \in 1..(Len(s) - Len(sub) + 1) : SubSeq(s, k, k + Len(sub) - 1) = sub

\* "\n".join(parts)
RECURSIVE JoinLines(_)
JoinLines(parts) ==
    IF parts = <<>> THEN <<>>
    ELSE IF Len(parts) = 1 THEN parts[1]
    ELSE parts[1] \o NL \o JoinLines(Tail(parts))

\* s.split('\n')
RECURSIVE SplitLines(_)
SplitLines(s) ==
    LET nls == {k \in 1..Len(s) : s[k] = "\n"}
    IN  IF nls = {} THEN <<s>>
        ELSE LET k == MinOf(nls)
             IN  <<SubSeq(s, 1, k - 1)>> \o SplitLines(SubSeq(s, k + 1, Len(s)))

\* ------------------------------------------------------------ configuration

TEXT_START_MARKER == <<"#", " ", "T", "e", "x", "t">>

VERSE_REFERENCE_MARKER == <<"A", "v", "g", "_">>

\* The literal pieces of VERSE_PATTERN = (.*?)//\s*Avg_(\d+\.\d+)\s*$
PatternSlashes == <<"/", "/">>

PatternToken == <<"A", "v", "g", "_">>

\* ------------------------------------------------------ detect_verse_format

NoMatch == [matched |-> FALSE, content |-> <<>>, index |-> <<>>]

\* The part of the pattern after group 1, //\s*Avg_(\d+\.\d+)\s*$, matched
\* against the whole of t.  Each greedy run is followed by a character outside
\* its class, so backtracking into a run never finds another match.
TailParse(t) ==
    LET n == Len(t)
    IN  IF n < 2 \/ SubSeq(t, 1, 2) # PatternSlashes THEN NoMatch
        ELSE LET b == RunEnd(t, 3, WS)
             IN  IF b + 3 > n \/ SubSeq(t, b, b + 3) # PatternToken THEN NoMatch
                 ELSE LET c == b + 4
                          d == RunEnd(t, c, Digits)
                      IN  IF d = c \/ d > n \/ t[d] # "." THEN NoMatch
                          ELSE LET e == d + 1
                                   f == RunEnd(t, e, Digits)
                               IN  IF f = e \/ RunEnd(t, f, WS) # n + 1
                                   THEN NoMatch
                                   ELSE [matched |-> TRUE, content |-> <<>>,
                                         index |-> SubSeq(t, c, f - 1)]

\* Which of the candidate lengths of group 1 the non-greedy (.*?) settles on.
GroupOneLength(ps) == MinOf(ps)

\* A variant of ContentOf that leaves out the .strip() of group 1.
ContentRaw(text) == text

\* verse_content = match.group(1).strip()
ContentOf(text) == Strip(text)

\* detect_verse_format(line): (verse_content, verse_index), or (None, None),
\* which is NoMatch here.  re.match anchors at the start of line.strip(); the
\* non-greedy group 1 takes the shortest prefix (of characters other than a
\* newline) after which the rest of the pattern matches up to the end.
detect_verse_format(line) ==
    LET s == Strip(line)
        ps == {p \in 0..Len(s) :
                 /\ \A k \in 1..p : s[k] # "\n"
                 /\ TailParse(SubSeq(s, p + 1, Len(s))).matched}
    IN  IF ps = {} THEN NoMatch
        ELSE LET p == GroupOneLength(ps)
             IN  [matched |-> TRUE,
                  content |-> ContentOf(SubSeq(s, 1, p)),
                  index |-> TailParse(SubSeq(s, p + 1, Len(s))).index]

\* `verse_content is not None`
IsNotNone(d) == d.matched

\* -------------------------------------------------------- group_verse_lines

\* The locals of group_verse_lines at the head of its while loop.  failed
\* stands for an IndexError; reads is the set of positions of lines read.
GroupStart ==
    [i |-> 0, pending_lines |-> <<>>, verses |-> <<>>, failed |-> FALSE,
     reads |-> {}]

\* Variants of MarkerVerse: the pending lines ignored, all of them used, the
\* two parts in the other order, the oldest pending line used.
MarkerVerseAlone(pending, verse_content) == verse_content

MarkerVerseAll(pending, verse_content) ==
    JoinLines(Append(pending, verse_content))

MarkerVerseSwapped(pending, verse_content) ==
    IF pending # <<>>
    THEN JoinLines(<<verse_content, pending[Len(pending)]>>)
    ELSE verse_content

MarkerVerseFirst(pending, verse_content) ==
    IF pending # <<>>
    THEN JoinLines(<<pending[1], verse_content>>)
    ELSE verse_content

\* The verse of a record made from a marker line that is the current line.
MarkerVerse(pending, verse_content) ==
    IF pending # <<>>
    THEN JoinLines(<<pending[Len(pending)], verse_content>>)
    ELSE verse_content

\* The verse of a record made from an unmarked line and the marker line
\* peeked right after it.
PeekVerse(line, next_content) == line \o NL \o next_content

\* A variant of PeekInRange: the peek made without the range test.
PeekAlways(i, n) == TRUE

\* `if i < len(lines)` before the peek at lines[i]
PeekInRange(i, n) == i < n

\* A variant of SkipPeeked: the peeked line is not skipped.
SkipNothing(i) == i

\* `i += 1  # Skip the next line since we've processed it`
SkipPeeked(i) == i + 1

\* A variant of StorePending: the new line replaces what was pending.
StoreOnlyLatest(pending, line) == <<line>>

\* pending_lines after `pending_lines.append(line)`
StorePending(pending, line) == Append(pending, line)

\* One iteration of `while i < len(lines)` over the list L.
ScanStep(L, g) ==
    LET line == Strip(L[g.i + 1])
        i1 == g.i + 1
        r1 == g.reads \cup {g.i}
    IN  IF line = <<>> THEN [g EXCEPT !.i = i1, !.reads = r1]
        ELSE LET d == detect_verse_format(line)
             IN  IF IsNotNone(d)
                 THEN [g EXCEPT !.i = i1, !.reads = r1,
                         !.verses = Append(@,
                            [verse |-> MarkerVerse(g.pending_lines, d.content),
                             index |-> d.index]),
                         !.pending_lines = <<>>]
                 ELSE LET pend == StorePending(g.pending_lines, line)
                      IN  IF ~PeekInRange(i1, Len(L))
                          THEN [g EXCEPT !.i = i1, !.reads = r1,
                                         !.pending_lines = pend]
                          ELSE IF i1 >= Len(L)
                          THEN [g EXCEPT !.i = i1, !.reads = r1 \cup {i1},
                                         !.pending_lines = pend,
                                         !.failed = TRUE]
                          ELSE LET next_line == Strip(L[i1 + 1])
                                   nd == detect_verse_format(next_line)
                                   r2 == r1 \cup {i1}
                               IN  IF next_line # <<>> /\ IsNotNone(nd)
                                   THEN [g EXCEPT !.i = SkipPeeked(i1),
                                           !.reads = r2,
                                           !.verses = Append(@,
                                              [verse |-> PeekVerse(line, nd.content),
                                               index |-> nd.index]),
                                           !.pending_lines = <<>>]
                                   ELSE [g EXCEPT !.i = i1, !.reads = r2,
                                                  !.pending_lines = pend]

\* A variant of LeftoverTarget: verses[0].
LeftoverFirst(vs) == 1

\* Which record the leftover pending lines are added to: verses[-1].
LeftoverTarget(vs) == Len(vs)

\* The code after the loop: leftover pending lines go to the last record.
Leftover(g) ==
    IF g.pending_lines # <<>> /\ Len(g.verses) > 0
    THEN [g EXCEPT !.verses[LeftoverTarget(g.verses)].verse =
                       @ \o NL \o JoinLines(g.pending_lines)]
    ELSE g

RECURSIVE RunGroup(_, _)
RunGroup(L, g) ==
    IF g.failed THEN g
    ELSE IF g.i < Len(L) THEN RunGroup(L, ScanStep(L, g))
    ELSE Leftover(g)

\* group_verse_lines(L) as a function of its argument.
group_verse_lines(L) == RunGroup(L, GroupStart).verses

\* -------------------------------------------------------- find_text_section

\* A variant of SkipBlankLines: the blank lines after the start marker kept.
SkipNoLines(L, k) == k

RECURSIVE SkipBlankLines(_, _)
SkipBlankLines(L, k) ==
    IF k < Len(L) /\ Strip(L[k + 1]) = <<>> THEN SkipBlankLines(L, k + 1) ELSE k

RECURSIVE ReferenceLoop(_, _)
ReferenceLoop(L, k) ==
    IF k >= Len(L) THEN 0
    ELSE IF Contains(L[k + 1], VERSE_REFERENCE_MARKER) THEN k
    ELSE ReferenceLoop(L, k + 1)

RECURSIVE StartMarkerLoop(_, _)
StartMarkerLoop(L, k) ==
    IF k >= Len(L) THEN ReferenceLoop(L, 0)
    ELSE IF Strip(L[k + 1]) = TEXT_START_MARKER THEN SkipBlankLines(L, k + 1)
    ELSE StartMarkerLoop(L, k + 1)

find_text_section(L) == StartMarkerLoop(L, 0)

\* ---------------------------------------------------------------- inputs

Slashes == <<"/", "/">>

Avg == <<"A", "v", "g", "_">>

\* a whitespace-only line
BlankLine == <<" ">>

PlainA == <<"a">>

\* "c // Avg_1.1"
MarkerC == <<"c", " ">> \o Slashes \o <<" ">> \o Avg \o <<"1", ".", "1">>

\* "//Avg_2.10 ": a marker line with nothing before the marker
MarkerEmpty == Slashes \o Avg \o <<"2", ".", "1", "0", " ">>

\* "d//Avg_1.1 //\tAvg_3.2": two marker-like tokens on one line
MarkerTwice ==
    <<"d">> \o Slashes \o Avg \o <<"1", ".", "1", " ">> \o Slashes \o <<"\t">>
        \o Avg \o <<"3", ".", "2">>

\* " # Text": the start marker, padded; to group_verse_lines an unmarked line
StartLine == <<" ">> \o TEXT_START_MARKER

LineSet == {BlankLine, PlainA, StartLine, MarkerC, MarkerEmpty, MarkerTwice}

Docs == UNION {[1..n -> LineSet] : n \in 0..MaxLines}

\* ------------------------------------------------------------------ state

VARIABLES doc, entry, text_start_index, lines, i, pending_lines, verses, pc,
          reads

vars == <<doc, entry, text_start_index, lines, i, pending_lines, verses, pc,
          reads>>

Init ==
    /\ doc \in Docs
    /\ entry = "none"
    /\ text_start_index = 0
    /\ lines = <<>>
    /\ i = 0
    /\ pending_lines = <<>>
    /\ verses = <<>>
    /\ pc = "start"
    /\ reads = {}

\* A caller hands the document's lines to group_verse_lines.
CallGroup ==
    /\ pc = "start"
    /\ entry' = "group_verse_lines"
    /\ lines' = doc
    /\ pc' = "scan"
    /\ UNCHANGED <<doc, text_start_index, i, pending_lines, verses, reads>>

\* VerseExtractor.extract_verses up to its call of group_verse_lines.
ExtractVerses ==
    /\ pc = "start"
    /\ entry' = "extract_verses"
    /\ text_start_index' = find_text_section(doc)
    /\ lines' = SubSeq(doc, find_text_section(doc) + 1, Len(doc))
    /\ pc' = "scan"
    /\ UNCHANGED <<doc, i, pending_lines, verses, reads>>

Locals ==
    [i |-> i, pending_lines |-> pending_lines, verses |-> verses,
     failed |-> FALSE, reads |-> reads]

SetLocals(g) ==
    /\ i' = g.i
    /\ pending_lines' = g.pending_lines
    /\ verses' = g.verses
    /\ reads' = g.reads

\* One iteration of the while loop.
Scan ==
    /\ pc = "scan"
    /\ i < Len(lines)
    /\ LET g == ScanStep(lines, Locals)
       IN  /\ SetLocals(g)
           /\ pc' = IF g.failed THEN "failed" ELSE "scan"
    /\ UNCHANGED <<doc, entry, text_start_index, lines>>

\* The loop's exit, the leftover step and the return.
Finish ==
    /\ pc = "scan"
    /\ i >= Len(lines)
    /\ SetLocals(Leftover(Locals))
    /\ pc' = "done"
    /\ UNCHANGED <<doc, entry, text_start_index, lines>>

Next == CallGroup \/ ExtractVerses \/ Scan \/ Finish

Spec == Init /\ [][Next]_vars

\* ---------------------------------------------------- vocabulary of the claims

\* A blank line: empty or whitespace-only.
IsBlank(l) == Strip(l) = <<>>

\* detect_verse_format over the lines of the documents, computed once.
DetectTable == [l \in LineSet |-> detect_verse_format(l)]

Detected(l) == IF l \in LineSet THEN DetectTable[l] ELSE detect_verse_format(l)

\* A marker line: a line that detect_verse_format classifies as a verse line.
IsMarkerLine(l) == Detected(l).matched

\* An unmarked line: neither blank nor a marker line.
IsUnmarked(l) == ~IsBlank(l) /\ ~IsMarkerLine(l)

Range(f) == {f[x] : x \in DOMAIN f}

\* The members of a set of integers, in increasing order.
RECURSIVE Ascending(_)
Ascending(S) ==
    IF S = {} THEN <<>> ELSE <<MinOf(S)>> \o Ascending(S \ {MinOf(S)})

\* The positions (1-based) of the marker lines among the first n lines of L,
\* in document order.
MarkerPositions(L, n) == Ascending({k \in 1..n : IsMarkerLine(L[k])})

\* The trimmed unmarked lines of L after position lo, up to position hi,
\* in document order.
UnmarkedBetween(L, lo, hi) ==
    LET ps == Ascending({k \in (lo + 1)..hi : IsUnmarked(L[k])})
    IN  [k \in 1..Len(ps) |-> Strip(L[ps[k]])]

\* The position of the last marker line among the first n lines of L (0: none).
LastMarker(L, n) ==
    LET ms == {k \in 1..n : IsMarkerLine(L[k])}
    IN  IF ms = {} THEN 0 ELSE MaxOf(ms)

\* L without the lines at the positions in D.
Without(L, D) ==
    LET ps == Ascending((1..Len(L)) \ D)
    IN  [k \in 1..Len(ps) |-> L[ps[k]]]

Returned == pc = "done"

\* The end-of-scan step extended the last record.
LeftoverApplied == pending_lines # <<>> /\ verses # <<>>

\* ------------------------------------------------------------------- C1

\* L with the line b inserted after its first p lines.
InsertAt(L, p, b) == SubSeq(L, 1, p) \o <<b>> \o SubSeq(L, p + 1, Len(L))

\* C1: blank-line invariance.  The lines given to group_verse_lines are taken
\* as L'; every L that L' is obtained from by inserting blank lines (L' less
\* any set of its blank lines) gives the record sequence that L' gives, and
\* so does L' with an empty line inserted at any position.
C1_BlankLineInvariance ==
    Returned =>
        /\ \A D \in SUBSET {k \in 1..Len(lines) : IsBlank(lines[k])} :
              group_verse_lines(Without(lines, D)) = verses
        /\ \A p \in 0..Len(lines) :
              group_verse_lines(InsertAt(lines, p, <<>>)) = verses

\* A blank line stands between an unmarked line and the marker line after it.
C1_Witness ==
    /\ Returned
    /\ \E k \in 1..(Len(lines) - 2) :
          /\ IsUnmarked(lines[k])
          /\ IsBlank(lines[k + 1])
          /\ IsMarkerLine(lines[k + 2])
    /\ \E k \in 1..Len(verses) : Contains(verses[k].verse, NL)

\* ------------------------------------------------------------------- C2

\* C2: the indices of the returned records are the indices of the input's
\* marker lines, in document order: one record per marker line.
C2_OrderPreservation ==
    Returned =>
        LET ms == MarkerPositions(lines, Len(lines))
        IN  [k \in 1..Len(verses) |-> verses[k].index]
              = [k \in 1..Len(ms) |-> Detected(lines[ms[k]]).index]

\* Two records with different indices, one of them made through the peek.
C2_Witness ==
    /\ Returned
    /\ Len(verses) >= 2
    /\ verses[1].index # verses[2].index
    /\ \E k \in 1..(Len(lines) - 1) :
          IsUnmarked(lines[k]) /\ IsMarkerLine(lines[k + 1])

\* ------------------------------------------------------------------- C3

\* The text r.verse + ' // Avg_' + r.index, split on newline and grouped again.
Regrouped(r) ==
    group_verse_lines(SplitLines(
        r.verse \o <<" ">> \o PatternSlashes \o <<" ">> \o VERSE_REFERENCE_MARKER
            \o r.index))

\* C3 as stated: re-grouping any returned record gives that record alone.
C3_Original ==
    Returned => \A k \in 1..Len(verses) : Regrouped(verses[k]) = <<verses[k]>>

\* C3 amended: re-grouping a returned record that the end-of-scan step did not
\* extend (any record but the last, and the last too when no pending line is
\* left) gives that record alone.
C3_RegroupScanRecords ==
    Returned =>
        \A k \in 1..Len(verses) :
            (k < Len(verses) \/ ~LeftoverApplied)
                => Regrouped(verses[k]) = <<verses[k]>>

\* A two-line record and a one-line record, nothing left pending.
C3_Witness ==
    /\ Returned
    /\ pending_lines = <<>>
    /\ \E j, k \in 1..Len(verses) :
          Contains(verses[j].verse, NL) /\ ~Contains(verses[k].verse, NL)

\* ------------------------------------------------------------------- C4

\* The content of the marker line at position p of the lines given.
MarkerContent(p) == Detected(lines[p]).content

LastLine(text) == SplitLines(text)[Len(SplitLines(text))]

\* C4 as stated: the last line of every returned verse is the content of the
\* record's marker line.
C4_Original ==
    Returned =>
        LET ms == MarkerPositions(lines, Len(lines))
        IN  \A k \in 1..Len(verses) :
                k <= Len(ms) /\ LastLine(verses[k].verse) = MarkerContent(ms[k])

\* C4 amended: the last line of a returned verse is the content of the
\* record's marker line, except in the last record when pending lines are left
\* at the end of the scan: there the marker content is followed by exactly
\* the pending lines, the trimmed unmarked lines after the last marker line.
C4_MarkerContentLast ==
    Returned =>
        LET ms == MarkerPositions(lines, Len(lines))
        IN  \A k \in 1..Len(verses) :
                /\ k <= Len(ms)
                /\ IF k = Len(verses) /\ LeftoverApplied
                   THEN LET vl == SplitLines(verses[k].verse)
                            m == Len(vl) - Len(pending_lines)
                        IN  /\ m >= 1
                            /\ vl[m] = MarkerContent(ms[k])
                            /\ SubSeq(vl, m + 1, Len(vl))
                                 = UnmarkedBetween(lines, ms[k], Len(lines))
                   ELSE LastLine(verses[k].verse) = MarkerContent(ms[k])

\* Both cases: a two-line record made in the scan, and a last record extended
\* by a leftover line.
C4_Witness ==
    /\ Returned
    /\ Len(verses) >= 2
    /\ Contains(verses[1].verse, NL)
    /\ Len(pending_lines) = 1

\* ------------------------------------------------------------------- C5

\* C5 as stated: no line of a returned verse is empty or whitespace-only.
C5_Original ==
    Returned =>
        \A k \in 1..Len(verses) :
            \A l \in Range(SplitLines(verses[k].verse)) : ~IsBlank(l)

\* Nothing but whitespace stands before the marker of the marker line l.
NothingBeforeMarker(l) == TailParse(Strip(l)).matched

\* C5 amended: every line of a returned verse is trimmed, and every line but
\* the marker-content line is non-empty; the marker-content line is empty
\* exactly when nothing but whitespace stands before the marker on its line.
C5_VerseLinesTrimmed ==
    Returned =>
        LET ms == MarkerPositions(lines, Len(lines))
        IN  \A k \in 1..Len(verses) :
                LET vl == SplitLines(verses[k].verse)
                    m == IF k = Len(verses) THEN Len(vl) - Len(pending_lines)
                         ELSE Len(vl)
                IN  /\ k <= Len(ms)
                    /\ m >= 1
                    /\ \A j \in 1..Len(vl) :
                          /\ Strip(vl[j]) = vl[j]
                          /\ j # m => vl[j] # <<>>
                    /\ (vl[m] = <<>>) <=> NothingBeforeMarker(lines[ms[k]])

\* A record whose marker line has text before the marker, padded, and a
\* record whose marker line has none.
C5_Witness ==
    /\ Returned
    /\ \E j, k \in 1..Len(verses) :
          /\ verses[j].verse = <<>>
          /\ Contains(verses[k].verse, NL)
          /\ LastLine(verses[k].verse) # <<>>

\* ------------------------------------------------------------------- C6

\* C6: group_verse_lines never fails and never reads a line at a position
\* >= len(lines); each iteration of the scan moves the cursor forward by one
\* line or by two, within the list, and never back, so that after at most
\* len(lines) iterations the loop is left and the call returns; nothing is
\* read beyond the one line after those consumed.  (Scan and Finish between
\* them are enabled in every state of the scan.)
C6_Totality ==
    /\ [](/\ pc # "failed"
          /\ reads \subseteq 0..(Len(lines) - 1)
          /\ i \in 0..Len(lines)
          /\ \A r \in reads : r <= i)
    /\ [][pc = "scan" =>
            \/ pc' = "scan" /\ i' \in {i + 1, i + 2} /\ reads \subseteq reads'
            \/ pc' = "done" /\ i' = i /\ i = Len(lines)]_vars

\* A scan that peeked and consumed a marker line and whose last line is an
\* unmarked line, where no line is left to peek at.
C6_Witness ==
    /\ Returned
    /\ Len(lines) = MaxLines
    /\ reads = 0..(Len(lines) - 1)
    /\ IsUnmarked(lines[Len(lines)])
    /\ \E k \in 1..(Len(lines) - 1) :
          IsUnmarked(lines[k]) /\ IsMarkerLine(lines[k + 1])

\* ------------------------------------------------------------------- C7

Called == entry = "extract_verses"

\* The positions (0-based) of the lines whose trimmed text is the start marker,
\* and of the lines that contain the reference marker.
StartPositions == {k \in 0..(Len(doc) - 1) : Strip(doc[k + 1]) = TEXT_START_MARKER}

ReferencePositions ==
    {k \in 0..(Len(doc) - 1) : Contains(doc[k + 1], VERSE_REFERENCE_MARKER)}

\* The priority of find_text_section, for the position r it returned.
Priority(r) ==
    IF StartPositions # {}
    THEN LET s == MinOf(StartPositions)
         IN  /\ r \in (s + 1)..Len(doc)
             /\ \A k \in (s + 1)..(r - 1) : IsBlank(doc[k + 1])
             /\ r < Len(doc) => ~IsBlank(doc[r + 1])
    ELSE IF ReferencePositions # {} THEN r = MinOf(ReferencePositions)
    ELSE r = 0

OnlyBlankAfterStart ==
    /\ StartPositions # {}
    /\ \A k \in (MinOf(StartPositions) + 1)..(Len(doc) - 1) : IsBlank(doc[k + 1])

\* C7 as stated: the priority, the range, and the result is len(lines) only
\* when the start marker is followed by nothing but blank lines.
C7_Original ==
    Called =>
        /\ Priority(text_start_index)
        /\ text_start_index \in 0..Len(doc)
        /\ text_start_index = Len(doc) => OnlyBlankAfterStart

\* C7 amended: the priority, the range, and the result is len(lines) only
\* when the input is empty or the first start marker line is followed by
\* nothing but blank lines.
C7_LocatorPriority ==
    Called =>
        /\ Priority(text_start_index)
        /\ text_start_index \in 0..Len(doc)
        /\ text_start_index = Len(doc) => (doc = <<>> \/ OnlyBlankAfterStart)

\* A line containing the reference marker comes before the start marker line,
\* which is followed by a blank line and then a line that is not blank.
C7_Witness ==
    /\ Called
    /\ \E a, b \in 1..Len(doc) :
          /\ a < b
          /\ Contains(doc[a], VERSE_REFERENCE_MARKER)
          /\ Strip(doc[b]) = TEXT_START_MARKER
          /\ b + 2 <= Len(doc)
          /\ IsBlank(doc[b + 1])
          /\ text_start_index = b + 1

\* ------------------------------------------------------------------- C8

\* C8 as stated: the pending buffer never holds more than one line.
C8_Original == Len(pending_lines) <= 1

\* C8 amended: the pending buffer holds, oldest first, every trimmed unmarked
\* line read since the last marker line (or since the start); storing an
\* unmarked line keeps the lines already pending, and creating a record
\* empties the buffer.
C8_PendingAccumulates ==
    pc \in {"scan", "done"} =>
        pending_lines = UnmarkedBetween(lines, LastMarker(lines, i), i)

\* Mid-scan, after a record, two lines are pending.
C8_Witness ==
    /\ pc = "scan"
    /\ verses # <<>>
    /\ Len(pending_lines) = 2
    /\ pending_lines[1] # pending_lines[2]

\* ------------------------------------------------------------------- C9

\* vs with the text t appended, after a newline, to the verse of its last
\* record, and nothing else changed.
LastExtended(vs, t) ==
    [k \in 1..Len(vs) |->
        IF k = Len(vs)
        THEN [verse |-> vs[k].verse \o NL \o t, index |-> vs[k].index]
        ELSE vs[k]]

\* C9: an iteration of the scan leaves the record list as it is or appends one
\* record to it; the end-of-scan step appends the joined pending lines to the
\* verse of the last record when lines are pending and a record exists, and
\* changes nothing otherwise; a returned list never changes.
C9_RecordFrame ==
    [][/\ (pc = "scan" /\ pc' = "scan") =>
            \/ verses' = verses
            \/ /\ Len(verses') = Len(verses) + 1
               /\ SubSeq(verses', 1, Len(verses)) = verses
       /\ (pc = "scan" /\ pc' = "done") =>
            IF pending_lines # <<>> /\ verses # <<>>
            THEN verses' = LastExtended(verses, JoinLines(pending_lines))
            ELSE verses' = verses
       /\ pc = "done" => verses' = verses]_vars

\* Two records were made and two lines were left over for the last of them.
C9_Witness ==
    /\ Returned
    /\ Len(verses) = 2
    /\ Len(pending_lines) = 2
    /\ Len(SplitLines(verses[2].verse)) >= 3

\* ------------------------------------------------------------------ C10

\* The record the scan makes for the marker line at position p (1-based) of L,
\* the previous marker line being at position q (0: none): the nearest
\* unmarked line between them, if any, then the marker's content.
ScanRecord(L, q, p) ==
    LET us == {k \in (q + 1)..(p - 1) : IsUnmarked(L[k])}
        d == Detected(L[p])
    IN  [verse |-> IF us = {} THEN d.content
                   ELSE Strip(L[MaxOf(us)]) \o NL \o d.content,
         index |-> d.index]

\* The records of the marker lines among the first n lines of L.
ScanRecords(L, n) ==
    LET ms == MarkerPositions(L, n)
    IN  [k \in 1..Len(ms) |->
            ScanRecord(L, IF k = 1 THEN 0 ELSE ms[k - 1], ms[k])]

\* C10: at every point of the scan the records made so far are, for each
\* marker line read so far and in order, the nearest unmarked line since the
\* previous marker line (if there is one) followed by the marker's content;
\* no other line is in any record.
C10_OneLineLookback ==
    pc = "scan" => verses = ScanRecords(lines, i)

\* The scan is over; a marker line was reached with two different lines
\* pending, and another through the peek.
C10_Witness ==
    /\ pc = "scan"
    /\ i = Len(lines)
    /\ \E k \in 1..(Len(lines) - 3) :
          /\ IsUnmarked(lines[k])
          /\ IsUnmarked(lines[k + 1])
          /\ Strip(lines[k]) # Strip(lines[k + 1])
          /\ IsBlank(lines[k + 2])
          /\ IsMarkerLine(lines[k + 3])

====
